---- MODULE Spec2Model ----
(***************************************************************************)
(* Model of docker_pull.py: DockerImagePuller and main.                    *)
(*                                                                         *)
(* A Python str that the code splits or rewrites (the image reference and  *)
(* the fields parsed from it) is a sequence of tokens: each of the         *)
(* separators "/", ":", "@", "." is a token of its own and every other     *)
(* token is a separator-free word. Str turns such a sequence into the text *)
(* that f-strings interpolate. All other text is a TLA+ string.            *)
(***************************************************************************)
EXTENDS Integers, Sequences, FiniteSets, TLC

VARIABLES
    argc,             \* len(sys.argv)
    image_reference,  \* sys.argv[1] / self.image_reference
    pc,               \* the statement of main()/pull() that runs next
    exit_status,      \* "running", "exit0" or "exit1"
    registry,         \* self.registry
    repo,             \* self.repo
    img,              \* self.img
    tag,              \* self.tag
    auth_url,         \* self.auth_url
    reg_service,      \* self.reg_service
    image_dir,        \* self.image_dir
    disk,             \* the working directory: path -> content
    requests,         \* every HTTP request sent so far, with its response
    stdout,           \* the lines printed about manifests and the result
    manifest,         \* pull(): manifest
    config_content,   \* pull(): config_content
    content,          \* process_layers(): content
    parent_id,        \* process_layers(): parent_id
    layer_index,      \* process_layers(): layers already processed
    pre_disk          \* the working directory as the run found it

vars == <<argc, image_reference, pc, exit_status, registry, repo, img, tag,
          auth_url, reg_service, image_dir, disk, requests, stdout, manifest,
          config_content, content, parent_id, layer_index, pre_disk>>

-----------------------------------------------------------------------------
(* Bounds *)

\* longest manifest, in layers
MaxLayers == 2

-----------------------------------------------------------------------------
(* Text *)

Range(s) == {s[i] : i \in DOMAIN s}

\* ''.join(tokens)
RECURSIVE Str(_)
Str(s) == IF s = <<>> THEN "" ELSE Head(s) \o Str(Tail(s))

\* str.split(sep) for a one-character sep
RECURSIVE Split(_, _)
Split(s, sep) ==
    IF sep \notin Range(s)
    THEN <<s>>
    ELSE LET i == CHOOSE k \in DOMAIN s :
                    s[k] = sep /\ \A j \in 1..(k - 1) : s[j] # sep
         IN  <<SubSeq(s, 1, i - 1)>> \o Split(SubSeq(s, i + 1, Len(s)), sep)

\* sep.join(parts)
RECURSIVE Join(_, _)
Join(parts, sep) ==
    IF parts = <<>> THEN <<>>
    ELSE IF Len(parts) = 1 THEN parts[1]
    ELSE parts[1] \o <<sep>> \o Join(Tail(parts), sep)

\* str.replace(old, new) for one-character old and new
Replace(s, old, new) == [i \in DOMAIN s |-> IF s[i] = old THEN new ELSE s[i]]

-----------------------------------------------------------------------------
(* DockerImagePuller.__init__ *)

DefaultRegistry == <<"registry-1", ".", "docker", ".", "io">>
DefaultRepo == <<"library">>
DefaultTag == <<"latest">>
DefaultAuthUrl == "https://auth.docker.io/token"
DefaultRegService == "registry.docker.io"

-----------------------------------------------------------------------------
(* parse_image_reference *)

\* 'self.img, self.tag = last_part.split(c)' raises ValueError unless the
\* split yields exactly two values.
SplitLastPart(last_part) ==
    IF "@" \in Range(last_part)
    THEN LET p == Split(last_part, "@")
         IN  IF Len(p) = 2
             THEN [raised |-> FALSE, img |-> p[1], tag |-> p[2]]
             ELSE [raised |-> TRUE, img |-> <<>>, tag |-> DefaultTag]
    ELSE IF ":" \in Range(last_part)
    THEN LET p == Split(last_part, ":")
         IN  IF Len(p) = 2
             THEN [raised |-> FALSE, img |-> p[1], tag |-> p[2]]
             ELSE [raised |-> TRUE, img |-> <<>>, tag |-> DefaultTag]
    ELSE [raised |-> FALSE, img |-> last_part, tag |-> DefaultTag]

\* HasRegistry with the test of the first segment left out
HasRegistryUntested(parts) == Len(parts) > 1

\* 'len(parts) > 1 and ("." in parts[0] or ":" in parts[0])'
HasRegistry(parts) ==
    Len(parts) > 1 /\ ("." \in Range(parts[1]) \/ ":" \in Range(parts[1]))

\* the registry and repository that lines 42-47 leave in the object
ParseRegistryRepo(parts) ==
    IF HasRegistry(parts)
    THEN [registry |-> parts[1],
          repo |-> Join(SubSeq(parts, 2, Len(parts) - 1), "/")]
    ELSE IF Len(parts) > 1
    THEN [registry |-> DefaultRegistry,
          repo |-> Join(SubSeq(parts, 1, Len(parts) - 1), "/")]
    ELSE [registry |-> DefaultRegistry, repo |-> DefaultRepo]

\* the whole method, on a freshly constructed puller
ParseReference(ref) ==
    LET parts == Split(ref, "/")
        last == SplitLastPart(parts[Len(parts)])
        rr == ParseRegistryRepo(parts)
    IN  IF last.raised
        THEN [raised |-> TRUE, registry |-> DefaultRegistry,
              repo |-> DefaultRepo, img |-> <<>>, tag |-> DefaultTag]
        ELSE [raised |-> FALSE, registry |-> rr.registry, repo |-> rr.repo,
              img |-> last.img, tag |-> last.tag]

-----------------------------------------------------------------------------
(* Values the code serialises, and the files it writes *)

\* A Python value handed to json.dump: a dict or a list.
PyDict(members) == [py |-> "dict", members |-> members]
PyList(elements) == [py |-> "list", elements |-> elements]

\* File contents. A JSON document keeps the type of its top-level value.
DirEntry == [kind |-> "dir"]
TextFile(text) == [kind |-> "text", text |-> text]
RawBytes(what) == [kind |-> "raw", what |-> what]
JsonObject(members) == [kind |-> "json", top |-> "object", members |-> members]
JsonArray(elements) == [kind |-> "json", top |-> "array", elements |-> elements]
GzipFile(payload) == [kind |-> "gzip", payload |-> payload]
TarFile(payload) == [kind |-> "layer", payload |-> payload]
Archive(tree, complete) == [kind |-> "archive", tree |-> tree, complete |-> complete]

\* json.dumps / json.dump: a dict becomes an object, a list an array
JsonDump(value) ==
    IF value.py = "dict" THEN JsonObject(value.members)
    ELSE JsonArray(value.elements)

\* json.loads: raises on bytes that are no JSON document
JsonLoadsRaises(bytes) == bytes.kind # "json"
JsonLoads(bytes) ==
    IF bytes.top = "object" THEN PyDict(bytes.members) ELSE PyList(bytes.elements)

\* dict.pop(key, None)
Pop(members, key) == [k \in DOMAIN members \ {key} |-> members[k]]

\* dict[key] = value
SetItem(members, key, value) == (key :> value) @@ members

\* Paths are sequences of path components.
IsPrefix(p, q) == Len(p) <= Len(q) /\ SubSeq(q, 1, Len(p)) = p
Exists(d, path) == path \in DOMAIN d
WriteFile(d, path, bytes) == (path :> bytes) @@ d
Remove(d, path) == [p \in DOMAIN d \ {path} |-> d[p]]
\* Rmtree removing the directory entry alone, not what is under it
RmtreeRootOnly(d, root) == Remove(d, root)
Rmtree(d, root) == [p \in {q \in DOMAIN d : ~IsPrefix(root, q)} |-> d[p]]
\* the tree under root, with paths relative to root
Subtree(d, root) ==
    [r \in {SubSeq(q, Len(root) + 1, Len(q)) : q \in {p \in DOMAIN d : IsPrefix(root, p)}}
        |-> d[root \o r]]

\* hashlib.sha256(text).hexdigest(), collision-free
Sha256(text) == "sha256hex(" \o text \o ")"

\* A digest of the manifest, "sha256:<hex>"
Digest(hex) == [alg |-> "sha256", hex |-> hex]
DigestStr(digest) == digest.alg \o ":" \o digest.hex
\* digest[7:], the text after the seven characters of "sha256:"
DigestTail(digest) == digest.hex

-----------------------------------------------------------------------------
(* What the registry, the auth server and the fallback hosts can answer *)

HTTP_OK == 200
HTTP_UNAUTHORIZED == 401
HTTP_NOT_FOUND == 404
\* requests.Response.raise_for_status raises HTTPError from this status on
HTTP_ERROR_FROM == 400

ManifestV2 == "application/vnd.docker.distribution.manifest.v2+json"
ManifestListV2 == "application/vnd.docker.distribution.manifest.list.v2+json"

Response(status_code, body) == [failed |-> FALSE, status_code |-> status_code, body |-> body]
\* the transport raised (requests.exceptions.ConnectionError): there is no response
NoResponse == [failed |-> TRUE]

ErrorDocument == JsonObject([errors |-> "BLOB_UNKNOWN"])
ErrorPage == RawBytes("<html>not found</html>")

ConfigHex == "ccc"
\* one layer without fallback URLs and one with two of them
LayerDescriptors ==
    {[digest |-> Digest("aaa"), urls |-> <<>>],
     [digest |-> Digest("bbb"),
      urls |-> <<"https://mirror.one/blob", "https://mirror.two/blob">>]}

RECURSIVE SeqsUpTo(_, _)
SeqsUpTo(S, n) ==
    IF n = 0 THEN {<<>>}
    ELSE LET shorter == SeqsUpTo(S, n - 1)
         IN  shorter \cup {Append(s, x) : s \in {t \in shorter : Len(t) = n - 1}, x \in S}

Manifests ==
    {[config |-> [digest |-> Digest(ConfigHex)], layers |-> ls] :
        ls \in SeqsUpTo(LayerDescriptors, MaxLayers)}

ManifestLists ==
    {[manifests |->
        <<[platform |-> <<<<"architecture", "amd64">>, <<"os", "linux">>>>,
           digest |-> "sha256:111"],
          [platform |-> <<<<"architecture", "arm64">>, <<"os", "linux">>>>,
           digest |-> "sha256:222"]>>],
     [manifests |->
        <<[platform |-> <<<<"architecture", "s390x">>, <<"os", "linux">>>>,
           digest |-> "sha256:333"]>>]}

Configs ==
    {[architecture |-> "amd64", history |-> "h", rootfs |-> "r"],
     [architecture |-> "arm64", rootfS |-> "r", id |-> "config-id",
      parent |-> "config-parent"]}

\* WWW-Authenticate headers, the double quote a token of its own
Challenges ==
    {<<"Bearer realm=", "\"", "https://auth.example/token", "\"",
       ",service=", "\"", "registry.example", "\"">>,
     <<"Bearer realm=", "\"", "https://auth.other/token", "\"">>}

ProbeResponses ==
    {Response(HTTP_UNAUTHORIZED, c) : c \in Challenges}
        \cup {Response(HTTP_OK, <<>>), NoResponse}

ManifestResponses ==
    {Response(HTTP_OK, m) : m \in Manifests}
        \cup {Response(HTTP_NOT_FOUND, ErrorDocument), NoResponse}

ManifestListResponses ==
    {Response(HTTP_OK, l) : l \in ManifestLists}
        \cup {Response(HTTP_NOT_FOUND, ErrorDocument), NoResponse}

ConfigResponses ==
    {Response(HTTP_OK, JsonObject(c)) : c \in Configs}
        \cup {Response(HTTP_NOT_FOUND, ErrorDocument),
              Response(HTTP_NOT_FOUND, ErrorPage),
              NoResponse}

\* what a GET of a layer blob can bring: the gzip of the layer, bytes that
\* are no gzip stream, an HTTP error, or no response at all
BlobResponses(digest) ==
    {Response(HTTP_OK, GzipFile(digest.hex)),
     Response(HTTP_OK, RawBytes("corrupt")),
     Response(HTTP_NOT_FOUND, ErrorDocument),
     NoResponse}

-----------------------------------------------------------------------------
(* The methods that talk to the network, as functions of the request log,   *)
(* the disk and the answer the other side gives                             *)

StatusOf(resp) == IF resp.failed THEN 0 ELSE resp.status_code

\* one entry of the request log
Request(kind, url, authorization, accept, status_code, issued) ==
    [kind |-> kind, url |-> url, authorization |-> authorization,
     accept |-> accept, status_code |-> status_code, issued |-> issued]

RegistryUrl(what, reference) ==
    "https://" \o Str(registry) \o "/v2/" \o Str(repo) \o "/" \o Str(img)
        \o "/" \o what \o "/" \o reference

TokenUrl ==
    auth_url \o "?service=" \o reg_service \o "&scope=repository:"
        \o Str(repo) \o "/" \o Str(img) \o ":pull"

\* a get_auth_token that keeps the first token it was issued and reuses it
get_auth_token_cached(log, content_type, has_token) ==
    LET prior == {k \in 1..Len(log) : log[k].kind = "token" /\ log[k].issued # ""}
        issued == IF has_token THEN "token-" \o ToString(Len(log) + 1) ELSE ""
        status == IF has_token THEN HTTP_OK ELSE HTTP_UNAUTHORIZED
    IN  IF prior # {}
        THEN [raised |-> "", log |-> log,
              headers |-> [Authorization |-> "Bearer " \o log[CHOOSE k \in prior : TRUE].issued,
                           Accept |-> content_type]]
        ELSE [raised |-> IF has_token THEN "" ELSE "KeyError",
              log |-> Append(log, Request("token", TokenUrl, "", "", status, issued)),
              headers |-> [Authorization |-> "Bearer " \o issued, Accept |-> content_type]]

\* get_auth_token: has_token is whether the answer carries a 'token' field;
\* resp.json()['token'] raises KeyError when it does not.
get_auth_token(log, content_type, has_token) ==
    LET issued == IF has_token THEN "token-" \o ToString(Len(log) + 1) ELSE ""
        status == IF has_token THEN HTTP_OK ELSE HTTP_UNAUTHORIZED
    IN  [raised |-> IF has_token THEN "" ELSE "KeyError",
         log |-> Append(log, Request("token", TokenUrl, "", "", status, issued)),
         headers |-> [Authorization |-> "Bearer " \o issued, Accept |-> content_type]]

\* download_with_progress
download_with_progress(log, d, url, file_path, has_token, resp) ==
    LET t == get_auth_token(log, ManifestV2, has_token)
        sent == Append(t.log, Request("blob", url, t.headers.Authorization,
                                      t.headers.Accept, StatusOf(resp), ""))
    IN  IF t.raised # ""
        THEN [raised |-> t.raised, log |-> t.log, disk |-> d]
        ELSE IF resp.failed
        THEN [raised |-> "ConnectionError", log |-> sent, disk |-> d]
        ELSE IF resp.status_code >= HTTP_ERROR_FROM
        THEN [raised |-> "HTTPError", log |-> sent, disk |-> d]
        ELSE [raised |-> "", log |-> sent, disk |-> WriteFile(d, file_path, resp.body)]

\* FallbackUrl taking the last fallback URL instead of the first
FallbackUrlLast(fallback_urls) == fallback_urls[Len(fallback_urls)]

\* 'if not fallback_urls: raise', else the URL the except branch downloads
FallbackUrl(fallback_urls) == fallback_urls[1]

\* the exceptions the try statement of download_layer catches
CaughtByDownloadLayer(raised) == raised = "HTTPError"

\* a decompress step that leaves the gzip intermediate behind
DecompressKeepGzip(d, gzip_path, tar_path) ==
    IF d[gzip_path].kind = "gzip"
    THEN [raised |-> "", disk |-> WriteFile(d, tar_path, TarFile(d[gzip_path].payload))]
    ELSE [raised |-> "BadGzipFile", disk |-> WriteFile(d, tar_path, RawBytes(""))]

\* lines 197-200: decompress layer_gzip.tar into layer.tar, remove the gzip
Decompress(d, gzip_path, tar_path) ==
    IF d[gzip_path].kind = "gzip"
    THEN [raised |-> "",
          disk |-> Remove(WriteFile(d, tar_path, TarFile(d[gzip_path].payload)), gzip_path)]
    ELSE [raised |-> "BadGzipFile", disk |-> WriteFile(d, tar_path, RawBytes(""))]

\* download_layer: env holds the answers to the primary and the fallback GET
download_layer(log, d, blob_digest, layer_dir, fallback_urls, env) ==
    LET gzip_path == Append(layer_dir, "layer_gzip.tar")
        tar_path == Append(layer_dir, "layer.tar")
        primary == download_with_progress(log, d, RegistryUrl("blobs", DigestStr(blob_digest)),
                                          gzip_path, env.has_token1, env.resp1)
        fallback == download_with_progress(primary.log, primary.disk,
                                           FallbackUrl(fallback_urls), gzip_path,
                                           env.has_token2, env.resp2)
        got == IF CaughtByDownloadLayer(primary.raised) /\ fallback_urls # <<>>
               THEN fallback ELSE primary
        unpacked == Decompress(got.disk, gzip_path, tar_path)
    IN  IF got.raised # ""
        THEN got
        ELSE [raised |-> unpacked.raised, log |-> got.log, disk |-> unpacked.disk]

\* lines 143-153: empty_json
EmptyConfig ==
    [created |-> "1970-01-01T00:00:00Z",
     container_config |->
        [Hostname |-> "", Domainname |-> "", User |-> "",
         AttachStdin |-> FALSE, AttachStdout |-> FALSE, AttachStderr |-> FALSE,
         Tty |-> FALSE, OpenStdin |-> FALSE, StdinOnce |-> FALSE,
         Env |-> "null", Cmd |-> "null", Image |-> "",
         Volumes |-> "null", WorkingDir |-> "", Entrypoint |-> "null",
         OnBuild |-> "null", Labels |-> "null"]]
empty_json == JsonDump(PyDict(EmptyConfig))

\* lines 207-215: the dict that create_layer_json dumps
LayerJsonData(json_data, layer_id, parent, is_last_layer) ==
    LET stripped == IF is_last_layer
                    THEN Pop(Pop(Pop(json_data, "history"), "rootfs"), "rootfS")
                    ELSE json_data
        with_id == SetItem(stripped, "id", layer_id)
    IN  IF parent # "" THEN SetItem(with_id, "parent", parent) ELSE with_id

\* create_layer_json
create_layer_json(d, layer_dir, layer_id, parent, layer_json, is_last_layer) ==
    IF JsonLoadsRaises(layer_json)
    THEN [raised |-> "JSONDecodeError", disk |-> d]
    ELSE [raised |-> "",
          disk |-> WriteFile(d, Append(layer_dir, "json"),
                             JsonDump(PyDict(LayerJsonData(JsonLoads(layer_json).members,
                                                           layer_id, parent, is_last_layer))))]

\* LayerId without the parent in the hashed text
LayerIdUnchained(parent, blob_digest) ==
    Sha256("" \o "\n" \o DigestStr(blob_digest) \o "\n")

\* line 167: the legacy ID of a layer
LayerId(parent, blob_digest) ==
    Sha256(parent \o "\n" \o DigestStr(blob_digest) \o "\n")

\* line 180: the is_last_layer argument of create_layer_json
IsLastLayerArg(blob_digest, layer) == blob_digest = layer.digest

\* process_layer
process_layer(log, d, layer, parent, layer_json, env) ==
    LET blob_digest == layer.digest
        layer_id == LayerId(parent, blob_digest)
        layer_dir == <<image_dir, layer_id>>
        made == WriteFile(WriteFile(d, layer_dir, DirEntry),
                          Append(layer_dir, "VERSION"), TextFile("1.0"))
        loaded == download_layer(log, made, blob_digest, layer_dir, layer.urls, env)
        written == create_layer_json(loaded.disk, layer_dir, layer_id, parent, layer_json,
                                     IsLastLayerArg(blob_digest, layer))
    IN  IF Exists(d, layer_dir)
        THEN [raised |-> "FileExistsError", log |-> log, disk |-> d, layer_id |-> layer_id]
        ELSE IF loaded.raised # ""
        THEN [raised |-> loaded.raised, log |-> loaded.log, disk |-> loaded.disk,
              layer_id |-> layer_id]
        ELSE [raised |-> written.raised, log |-> loaded.log, disk |-> written.disk,
              layer_id |-> layer_id]

\* line 158: the layer_json argument of process_layer
LayerJsonFor(layers, layer, config) ==
    IF layers[Len(layers)].digest = layer.digest THEN config ELSE empty_json

\* AppendLayer inserting at the front
AppendLayerInFront(members, layer_id) ==
    [members EXCEPT !.Layers = <<layer_id \o "/layer.tar">> \o @]

\* line 159: content['Layers'].append(f'{parent_id}/layer.tar')
AppendLayer(members, layer_id) ==
    [members EXCEPT !.Layers = Append(@, layer_id \o "/layer.tar")]

\* lines 109-111: one printed line per sub-manifest of the manifest list
RECURSIVE PlatformInfo(_)
PlatformInfo(items) ==
    IF items = <<>> THEN ""
    ELSE items[1][1] \o ": " \o items[1][2]
            \o (IF Len(items) > 1 THEN ", " ELSE "") \o PlatformInfo(Tail(items))

ManifestLine(m) == PlatformInfo(m.platform) \o ", digest: " \o m.digest

\* ManifestReport stopping after the first sub-manifest
ManifestReportFirstOnly(manifests) == <<ManifestLine(manifests[1])>>

ManifestReport(manifests) == [i \in DOMAIN manifests |-> ManifestLine(manifests[i])]

\* handle_manifest_error: ends in exit(1) unless an exception comes first
handle_manifest_error(log, out, has_token, resp) ==
    LET complaint == Append(out, "[-] Cannot fetch manifest for " \o Str(repo) \o "/" \o Str(img))
        t == get_auth_token(log, ManifestListV2, has_token)
        sent == Append(t.log, Request("manifest", RegistryUrl("manifests", Str(tag)),
                                      t.headers.Authorization, t.headers.Accept,
                                      StatusOf(resp), ""))
    IN  IF t.raised # ""
        THEN [raised |-> t.raised, log |-> t.log, stdout |-> complaint]
        ELSE IF resp.failed
        THEN [raised |-> "ConnectionError", log |-> sent, stdout |-> complaint]
        ELSE IF resp.status_code = HTTP_OK
        THEN [raised |-> "SystemExit", log |-> sent,
              stdout |-> Append(complaint, "[+] Manifests found for this tag")
                            \o ManifestReport(resp.body.manifests)]
        ELSE [raised |-> "SystemExit", log |-> sent, stdout |-> complaint]

\* fetch_manifest: resp answers the manifest GET, env the manifest-list GET
fetch_manifest(log, out, has_token, resp, env) ==
    LET t == get_auth_token(log, ManifestV2, has_token)
        sent == Append(t.log, Request("manifest", RegistryUrl("manifests", Str(tag)),
                                      t.headers.Authorization, t.headers.Accept,
                                      StatusOf(resp), ""))
    IN  IF t.raised # ""
        THEN [raised |-> t.raised, log |-> t.log, stdout |-> out]
        ELSE IF resp.failed
        THEN [raised |-> "ConnectionError", log |-> sent, stdout |-> out]
        ELSE IF resp.status_code # HTTP_OK
        THEN handle_manifest_error(sent, out, env.has_token, env.resp)
        ELSE [raised |-> "", log |-> sent, stdout |-> out]

\* line 116
ImageDirName(image, selector) ==
    "tmp_" \o Str(image) \o "_" \o Str(Replace(selector, ":", "@"))

\* line 237
TarName(repository, image) ==
    Str(Replace(repository, "/", "_")) \o "_" \o Str(image) \o ".tar"

\* line 124
ConfigFile(config_digest) == <<image_dir, DigestTail(config_digest) \o ".json">>

\* download_config: the body is written whatever the status of the answer
download_config(log, d, config_digest, has_token, resp) ==
    LET t == get_auth_token(log, ManifestV2, has_token)
        sent == Append(t.log, Request("config", RegistryUrl("blobs", DigestStr(config_digest)),
                                      t.headers.Authorization, t.headers.Accept,
                                      StatusOf(resp), ""))
    IN  IF t.raised # ""
        THEN [raised |-> t.raised, log |-> t.log, disk |-> d]
        ELSE IF resp.failed
        THEN [raised |-> "ConnectionError", log |-> sent, disk |-> d]
        ELSE [raised |-> "", log |-> sent,
              disk |-> WriteFile(d, ConfigFile(config_digest), resp.body)]

\* line 138
RepoTag ==
    IF repo # DefaultRepo
    THEN Str(repo) \o "/" \o Str(img) \o ":" \o Str(tag)
    ELSE Str(img) \o ":" \o Str(tag)

\* RepoContent without the rule that omits the default namespace
RepoContentQualified(last_layer_id) ==
    (Str(repo) \o "/" \o Str(img)) :> (Str(tag) :> last_layer_id)

\* lines 227-231
RepoContent(last_layer_id) ==
    LET key == IF repo # DefaultRepo THEN Str(repo) \o "/" \o Str(img) ELSE Str(img)
    IN  key :> (Str(tag) :> last_layer_id)

\* create_image_files
create_image_files(d, manifest_content, last_layer_id) ==
    WriteFile(WriteFile(d, <<image_dir, "manifest.json">>, JsonDump(manifest_content)),
              <<image_dir, "repositories">>, JsonDump(PyDict(RepoContent(last_layer_id))))

\* what tarfile leaves in the archive when tar.add fails part-way
PartialTrees(tree) ==
    {[p \in {q \in DOMAIN tree : Len(q) <= n} |-> tree[p]] : n \in {0, 1}}

\* create_image_tar: packed is the tree tarfile managed to write
create_image_tar(d, outcome, packed) ==
    LET tar_path == <<TarName(repo, img)>>
    IN  IF outcome = "open_failed"
        THEN [raised |-> "OSError", disk |-> d]
        ELSE IF outcome = "add_failed"
        THEN [raised |-> "OSError", disk |-> WriteFile(d, tar_path, Archive(packed, FALSE))]
        ELSE [raised |-> "",
              disk |-> Rmtree(WriteFile(d, tar_path,
                                        Archive(Subtree(d, <<image_dir>>), TRUE)),
                              <<image_dir>>)]

-----------------------------------------------------------------------------
(* The command line and the working directory a run can start from *)

\* [registry/][repository/]image[:tag|@digest]
Format(host, namespace, image, selector) ==
    (IF host # <<>> THEN host \o <<"/">> ELSE <<>>)
        \o (IF namespace # <<>> THEN namespace \o <<"/">> ELSE <<>>)
        \o image \o selector

RefHosts == {<<"host", ".", "tld">>, <<"localhost", ":", "5000">>}
RefNamespaces == {<<"ns">>, <<"ns", "/", "sub">>}
RefImages == {<<"img">>, <<"busybox">>}
RefTags == {<<":", "v1">>}
RefDigests == {<<"@", "sha256", ":", "abc">>}
RefMalformed == {<<":", "a", ":", "b">>}
RefSelectors == {<<>>} \cup RefTags \cup RefDigests \cup RefMalformed

References ==
    {Format(h, n, i, s) : h \in RefHosts \cup {<<>>}, n \in RefNamespaces \cup {<<>>},
                          i \in RefImages, s \in RefSelectors}

\* the references the whole pull is explored for
PulledReferences ==
    {Format(<<>>, <<>>, <<"busybox">>, <<>>),
     Format(<<"host", ".", "tld">>, <<"ns", "/", "sub">>, <<"img">>,
            <<"@", "sha256", ":", "abc">>),
     Format(<<>>, <<>>, <<"img">>, <<":", "a", ":", "b">>)}

\* what an earlier run for the same reference can have left behind
StaleStaging(dir) ==
    (<<dir>> :> DirEntry) @@ (<<dir, "stale">> :> DirEntry)
        @@ (<<dir, "stale", "layer.tar">> :> TarFile("stale"))
OldArchive(tar_name) ==
    <<tar_name>> :> Archive(<<"manifest.json">> :> RawBytes("old"), TRUE)

PreDisks(ref) ==
    LET p == ParseReference(ref)
        stale == StaleStaging(ImageDirName(p.img, p.tag))
        old == OldArchive(TarName(p.repo, p.img))
    IN  IF p.raised THEN {<<>>} ELSE {<<>>, stale, old, stale @@ old}

NoManifest == [layers |-> <<>>]

InitFor(refs) ==
    /\ argc \in {1, 2, 3}
    /\ image_reference \in IF argc = 2 THEN refs ELSE {<<>>}
    /\ pc = "main"
    /\ exit_status = "running"
    /\ registry = DefaultRegistry
    /\ repo = DefaultRepo
    /\ tag = DefaultTag
    /\ img = <<>>
    /\ auth_url = DefaultAuthUrl
    /\ reg_service = DefaultRegService
    /\ image_dir = ""
    /\ pre_disk \in IF argc = 2 THEN PreDisks(image_reference) ELSE {<<>>}
    /\ disk = pre_disk
    /\ requests = <<>>
    /\ stdout = <<>>
    /\ manifest = NoManifest
    /\ config_content = RawBytes("")
    /\ content = PyDict(<<>>)
    /\ parent_id = ""
    /\ layer_index = 0

Init == InitFor(PulledReferences)

-----------------------------------------------------------------------------
(* The steps of main() and pull() *)

\* sys.exit(1), or an exception that reaches main's handler (or SystemExit)
Exit(status) ==
    /\ pc' = "exit"
    /\ exit_status' = status

\* lines 269-276
Main ==
    /\ pc = "main"
    /\ IF argc # 2
       THEN Exit("exit1")
       ELSE pc' = "parse_image_reference" /\ UNCHANGED exit_status
    /\ UNCHANGED <<argc, image_reference, registry, repo, img, tag, auth_url,
                   reg_service, image_dir, disk, requests, stdout, manifest,
                   config_content, content, parent_id, layer_index, pre_disk>>

\* line 245
ParseImageReference ==
    /\ pc = "parse_image_reference"
    /\ LET r == ParseReference(image_reference)
       IN  IF r.raised
           THEN Exit("exit1") /\ UNCHANGED <<registry, repo, img, tag>>
           ELSE /\ registry' = r.registry
                /\ repo' = r.repo
                /\ img' = r.img
                /\ tag' = r.tag
                /\ pc' = "get_auth_endpoint"
                /\ UNCHANGED exit_status
    /\ UNCHANGED <<argc, image_reference, auth_url, reg_service, image_dir, disk,
                   requests, stdout, manifest, config_content, content, parent_id,
                   layer_index, pre_disk>>

\* a challenge handler that keeps the default service when none is announced
ChallengeKeepService(header) ==
    LET quoted == Split(header, "\"")
    IN  [auth_url |-> Str(quoted[2]),
         reg_service |-> IF Len(quoted) >= 4 THEN Str(quoted[4]) ELSE DefaultRegService]

\* lines 52-57: the fields a 401 answer sets
Challenge(header) ==
    LET quoted == Split(header, "\"")
    IN  [auth_url |-> Str(quoted[2]),
         reg_service |-> IF Len(quoted) >= 4 THEN Str(quoted[4]) ELSE ""]

\* line 246: get_auth_endpoint
GetAuthEndpoint ==
    /\ pc = "get_auth_endpoint"
    /\ \E resp \in ProbeResponses :
        /\ requests' = Append(requests, Request("probe", "https://" \o Str(registry) \o "/v2/",
                                                "", "", StatusOf(resp), ""))
        /\ IF resp.failed
           THEN Exit("exit1") /\ UNCHANGED <<auth_url, reg_service>>
           ELSE /\ IF resp.status_code = HTTP_UNAUTHORIZED
                   THEN /\ auth_url' = Challenge(resp.body).auth_url
                        /\ reg_service' = Challenge(resp.body).reg_service
                   ELSE UNCHANGED <<auth_url, reg_service>>
                /\ pc' = "create_image_directory"
                /\ UNCHANGED exit_status
    /\ UNCHANGED <<argc, image_reference, registry, repo, img, tag, image_dir, disk,
                   stdout, manifest, config_content, content, parent_id, layer_index,
                   pre_disk>>

\* line 247: create_image_directory
CreateImageDirectory ==
    /\ pc = "create_image_directory"
    /\ image_dir' = ImageDirName(img, tag)
    /\ disk' = WriteFile(IF Exists(disk, <<image_dir'>>)
                         THEN Rmtree(disk, <<image_dir'>>) ELSE disk,
                         <<image_dir'>>, DirEntry)
    /\ pc' = "fetch_manifest"
    /\ UNCHANGED <<argc, image_reference, exit_status, registry, repo, img, tag,
                   auth_url, reg_service, requests, stdout, manifest, config_content,
                   content, parent_id, layer_index, pre_disk>>

\* lines 249-250: fetch_manifest
FetchManifest ==
    /\ pc = "fetch_manifest"
    /\ \E has_token \in BOOLEAN, resp \in ManifestResponses,
          has_token2 \in BOOLEAN, resp2 \in ManifestListResponses :
        LET r == fetch_manifest(requests, stdout, has_token, resp,
                                [has_token |-> has_token2, resp |-> resp2])
        IN  /\ requests' = r.log
            /\ stdout' = r.stdout
            /\ IF r.raised # ""
               THEN Exit("exit1") /\ UNCHANGED manifest
               ELSE /\ manifest' = resp.body
                    /\ pc' = "download_config"
                    /\ UNCHANGED exit_status
    /\ UNCHANGED <<argc, image_reference, registry, repo, img, tag, auth_url,
                   reg_service, image_dir, disk, config_content, content, parent_id,
                   layer_index, pre_disk>>

\* lines 253-255: download_config, then the file is read back
DownloadConfig ==
    /\ pc = "download_config"
    /\ \E has_token \in BOOLEAN, resp \in ConfigResponses :
        LET r == download_config(requests, disk, manifest.config.digest, has_token, resp)
        IN  /\ requests' = r.log
            /\ disk' = r.disk
            /\ IF r.raised # ""
               THEN Exit("exit1") /\ UNCHANGED config_content
               ELSE /\ config_content' = r.disk[ConfigFile(manifest.config.digest)]
                    /\ pc' = "process_layers"
                    /\ UNCHANGED exit_status
    /\ UNCHANGED <<argc, image_reference, registry, repo, img, tag, auth_url,
                   reg_service, image_dir, stdout, manifest, content, parent_id,
                   layer_index, pre_disk>>

\* lines 136-155: process_layers up to its loop
ProcessLayersEnter ==
    /\ pc = "process_layers"
    /\ content' = PyDict([Config |-> "", RepoTags |-> <<RepoTag>>, Layers |-> <<>>])
    /\ parent_id' = ""
    /\ layer_index' = 0
    /\ pc' = "for_layer_in_layers"
    /\ UNCHANGED <<argc, image_reference, exit_status, registry, repo, img, tag,
                   auth_url, reg_service, image_dir, disk, requests, stdout, manifest,
                   config_content, pre_disk>>

\* the answers to the requests of one layer; those to the fallback requests
\* vary only where download_layer can reach them
LayerAnswers(layer) ==
    {[has_token1 |-> t1, resp1 |-> r1, has_token2 |-> t2, resp2 |-> r2] :
        t1 \in BOOLEAN, r1 \in BlobResponses(layer.digest),
        t2 \in BOOLEAN, r2 \in BlobResponses(layer.digest)}

\* lines 157-159: one iteration of the loop of process_layers
ProcessLayer ==
    /\ pc = "for_layer_in_layers"
    /\ layer_index < Len(manifest.layers)
    /\ \E env \in LayerAnswers(manifest.layers[layer_index + 1]) :
        LET layer == manifest.layers[layer_index + 1]
            r == process_layer(requests, disk, layer, parent_id,
                               LayerJsonFor(manifest.layers, layer, config_content),
                               env)
        IN  /\ requests' = r.log
            /\ disk' = r.disk
            /\ IF r.raised # ""
               THEN Exit("exit1") /\ UNCHANGED <<parent_id, content, layer_index>>
               ELSE /\ parent_id' = r.layer_id
                    /\ content' = PyDict(AppendLayer(content.members, r.layer_id))
                    /\ layer_index' = layer_index + 1
                    /\ UNCHANGED <<pc, exit_status>>
    /\ UNCHANGED <<argc, image_reference, registry, repo, img, tag, auth_url,
                   reg_service, image_dir, stdout, manifest, config_content, pre_disk>>

\* lines 161-162: process_layers returns content and the last layer's ID
ProcessLayersReturn ==
    /\ pc = "for_layer_in_layers"
    /\ layer_index = Len(manifest.layers)
    /\ content' = PyDict([content.members EXCEPT !.Config = parent_id \o ".json"])
    /\ pc' = "create_image_files"
    /\ UNCHANGED <<argc, image_reference, exit_status, registry, repo, img, tag,
                   auth_url, reg_service, image_dir, disk, requests, stdout, manifest,
                   config_content, parent_id, layer_index, pre_disk>>

\* line 261: create_image_files; the disk may refuse the first write
CreateImageFiles ==
    /\ pc = "create_image_files"
    /\ \E writable \in BOOLEAN :
        IF writable
        THEN /\ disk' = create_image_files(disk, content, parent_id)
             /\ pc' = "create_image_tar"
             /\ UNCHANGED exit_status
        ELSE Exit("exit1") /\ UNCHANGED disk
    /\ UNCHANGED <<argc, image_reference, registry, repo, img, tag, auth_url,
                   reg_service, image_dir, requests, stdout, manifest, config_content,
                   content, parent_id, layer_index, pre_disk>>

\* lines 264-266 and the return to main: create_image_tar
CreateImageTar ==
    /\ pc = "create_image_tar"
    /\ \E outcome \in {"packed", "open_failed", "add_failed"} :
       \E packed \in PartialTrees(Subtree(disk, <<image_dir>>)) :
        LET r == create_image_tar(disk, outcome, packed)
        IN  /\ disk' = r.disk
            /\ IF r.raised # ""
               THEN Exit("exit1") /\ UNCHANGED stdout
               ELSE /\ stdout' = Append(stdout, "Docker image pulled: " \o TarName(repo, img))
                    /\ Exit("exit0")
    /\ UNCHANGED <<argc, image_reference, registry, repo, img, tag, auth_url,
                   reg_service, image_dir, requests, manifest, config_content, content,
                   parent_id, layer_index, pre_disk>>

Next ==
    \/ Main
    \/ ParseImageReference
    \/ GetAuthEndpoint
    \/ CreateImageDirectory
    \/ FetchManifest
    \/ DownloadConfig
    \/ ProcessLayersEnter
    \/ ProcessLayer
    \/ ProcessLayersReturn
    \/ CreateImageFiles
    \/ CreateImageTar

Spec == Init /\ [][Next]_vars

\* parse_image_reference alone, over every reference of References
InitParse == InitFor(References)
NextParse == Main \/ ParseImageReference
SpecParse == InitParse /\ [][NextParse]_vars

-----------------------------------------------------------------------------
(* Vocabulary of the properties *)

Layers == manifest.layers

\* the legacy ID of layer i as the data model defines it: a chain over the
\* ordered digests alone
RECURSIVE ChainId(_, _)
ChainId(layers, i) ==
    Sha256((IF i = 1 THEN "" ELSE ChainId(layers, i - 1)) \o "\n"
            \o DigestStr(layers[i].digest) \o "\n")

Staged(name) == <<image_dir, name>>
StagingExists == image_dir # "" /\ Exists(disk, <<image_dir>>)
TarPath == <<TarName(repo, img)>>

\* the archive file is as the run found it
ArchiveUntouched ==
    /\ Exists(disk, TarPath) <=> Exists(pre_disk, TarPath)
    /\ Exists(disk, TarPath) => disk[TarPath] = pre_disk[TarPath]

\* the archive file holds manifest.json, repositories and every layer directory
ArchiveComplete ==
    /\ Exists(disk, TarPath)
    /\ disk[TarPath].complete
    /\ {<<"manifest.json">>, <<"repositories">>} \subseteq DOMAIN disk[TarPath].tree
    /\ \A i \in 1..Len(Layers) :
          {<<ChainId(Layers, i)>>, <<ChainId(Layers, i), "VERSION">>,
           <<ChainId(Layers, i), "json">>, <<ChainId(Layers, i), "layer.tar">>}
              \subseteq DOMAIN disk[TarPath].tree

\* request k is a GET of a blob that failed and that no fallback GET made good
IsBlobGet(k) == requests[k].kind \in {"config", "blob"}
MadeGood(k) ==
    /\ requests[k].kind = "blob"
    /\ k + 2 <= Len(requests)
    /\ requests[k + 1].kind = "token"
    /\ requests[k + 2].kind = "blob"
    /\ requests[k + 2].status_code = HTTP_OK
BlobFailure(k) ==
    /\ IsBlobGet(k)
    /\ requests[k].status_code # HTTP_OK
    /\ ~MadeGood(k)

\* a layer blob failed to decompress: only then does layer_gzip.tar stay
DecompressFailure ==
    \E p \in DOMAIN disk : IsPrefix(<<image_dir>>, p) /\ p[Len(p)] = "layer_gzip.tar"

\* the members of a layer's json other than id and parent
Body(members) == Pop(Pop(members, "id"), "parent")

-----------------------------------------------------------------------------
(* C1 *)

\* C1: the json of every layer that is not the last layer of the manifest is
\* built from the placeholder config, never from the downloaded config, and
\* the json of the last layer is built from the downloaded config without
\* its history, rootfs and rootfS keys.
C1_PlaceholderExceptLast ==
    \A i \in 1..Len(Layers) :
        (StagingExists /\ Exists(disk, Staged(ChainId(Layers, i)) \o <<"json">>)) =>
            LET written == disk[Staged(ChainId(Layers, i)) \o <<"json">>].members
            IN  IF i < Len(Layers)
                THEN Body(written) = EmptyConfig
                ELSE Body(written)
                        = Body(Pop(Pop(Pop(config_content.members, "history"),
                                       "rootfs"), "rootfS"))

-----------------------------------------------------------------------------
(* C2 *)

\* C2: when a run has ended, the archive file is untouched by the run or is
\* a complete archive; no failed run leaves a new or partly written archive.
C2_ArchiveAllOrNothing ==
    pc = "exit" =>
        \/ ArchiveUntouched
        \/ exit_status = "exit0" /\ ArchiveComplete

-----------------------------------------------------------------------------
(* C3 *)

\* C3: when the GET of the config blob or of a layer blob fails and no
\* fallback makes it good, or a layer fails to decompress, the pull aborts:
\* no later blob is requested, no archive is produced, and the run ends with
\* exit status 1.
C3_BlobFailureAborts ==
    \A k \in DOMAIN requests :
        BlobFailure(k) =>
            /\ \A m \in DOMAIN requests :
                  (m > k /\ IsBlobGet(m)) => (m = k + 2 /\ requests[k].kind = "blob")
            /\ ArchiveUntouched
            /\ pc = "exit" => exit_status = "exit1"

\* the same for a layer that fails to decompress
C3_DecompressFailureAborts ==
    DecompressFailure => pc = "exit" /\ exit_status = "exit1" /\ ArchiveUntouched

-----------------------------------------------------------------------------
(* C4 *)

\* what one iteration of the loop over the layers adds to the request log
C4_Step ==
    (pc = "for_layer_in_layers" /\ layer_index < Len(Layers)) =>
        LET layer == Layers[layer_index + 1]
            new == SubSeq(requests', Len(requests) + 1, Len(requests'))
            gets == SelectSeq(new, LAMBDA r : r.kind = "blob")
            tokens == SelectSeq(new, LAMBDA r : r.kind = "token")
            primary == "https://" \o Str(registry) \o "/v2/" \o Str(repo) \o "/"
                          \o Str(img) \o "/blobs/" \o DigestStr(layer.digest)
        IN  /\ Len(gets) <= 2
            /\ Len(tokens) <= 2
            /\ Len(gets) >= 1 => gets[1].url = primary
            /\ Len(gets) = 2 =>
                  /\ gets[1].status_code >= HTTP_ERROR_FROM
                  /\ layer.urls # <<>>
                  /\ gets[2].url = layer.urls[1]
            /\ (Len(gets) >= 1 /\ gets[1].status_code >= HTTP_ERROR_FROM
                    /\ layer.urls # <<>>) =>
                  /\ Len(tokens) = 2
                  /\ tokens[2].issued # "" => Len(gets) = 2
            /\ (Len(gets) = 1 /\ gets[1].status_code # HTTP_OK /\ layer.urls = <<>>) =>
                  exit_status' = "exit1"
            /\ (Len(gets) = 1 /\ gets[1].status_code = 0) => exit_status' = "exit1"
            /\ (Len(gets) = 2 /\ gets[2].status_code # HTTP_OK) => exit_status' = "exit1"
            /\ Cardinality({k \in DOMAIN gets : gets[k].url = primary}) <= 1

\* C4: for each layer at most two GETs are made: the registry blob URL
\* first, and a second one, to fallbackURLs[0] only, exactly when the first
\* failed at HTTP level and the layer has fallback URLs (and the token for it
\* was issued); a primary failure without fallback URLs and a failure of the
\* fallback GET end the run with status 1; fallbackURLs[1..] are never
\* requested and the primary URL is never requested twice.
C4_AtMostOneFallback == [][C4_Step]_vars

\* a layer whose primary GET failed with 404 and whose blob then came from
\* the first of its two fallback URLs
C4_Witness ==
    \E k \in DOMAIN requests :
        /\ requests[k].kind = "blob"
        /\ requests[k].status_code = HTTP_NOT_FOUND
        /\ k + 2 <= Len(requests)
        /\ requests[k + 2].kind = "blob"
        /\ requests[k + 2].url = "https://mirror.one/blob"
        /\ requests[k + 2].status_code = HTTP_OK
        /\ layer_index >= 1
        /\ Len(Layers[layer_index].urls) = 2

-----------------------------------------------------------------------------
(* C5 *)

ManifestGets == SelectSeq(requests, LAMBDA r : r.kind = "manifest")

\* the manifest GET was refused and the manifest-list GET succeeded
ManifestListFound ==
    /\ Len(ManifestGets) >= 2
    /\ ManifestGets[1].accept = ManifestV2
    /\ ManifestGets[1].status_code \notin {HTTP_OK, 0}
    /\ ManifestGets[2].accept = ManifestListV2
    /\ ManifestGets[2].status_code = HTTP_OK

\* the line the run owes to one sub-manifest of a manifest list
C5_Line(m) ==
    m.platform[1][1] \o ": " \o m.platform[1][2] \o ", "
        \o m.platform[2][1] \o ": " \o m.platform[2][2] \o ", digest: " \o m.digest

\* C5: when the manifest GET is refused and the manifest-list GET of the
\* same URL succeeds, the run prints the platform and digest of every
\* sub-manifest and ends with a non-zero status, without another manifest
\* GET, without any blob GET and without writing the archive.
C5_ManifestListIsTerminal ==
    ManifestListFound =>
        /\ pc = "exit"
        /\ exit_status = "exit1"
        /\ Len(ManifestGets) = 2
        /\ ManifestGets[2].url = ManifestGets[1].url
        /\ \A k \in DOMAIN requests : ~IsBlobGet(k)
        /\ ArchiveUntouched
        /\ \E l \in ManifestLists :
              /\ Len(stdout) = 2 + Len(l.manifests)
              /\ \A i \in DOMAIN l.manifests : stdout[2 + i] = C5_Line(l.manifests[i])

\* the run has ended after reporting a manifest list of two platforms
C5_Witness ==
    /\ ManifestListFound
    /\ pc = "exit"
    /\ Len(stdout) = 4
    /\ stdout[4] = "architecture: arm64, os: linux, digest: sha256:222"

-----------------------------------------------------------------------------
(* C6 *)

\* C6: the top-level value of manifest.json is a sequence with exactly one
\* element, the record {Config, RepoTags, Layers}, never the bare record.
C6_ManifestJsonIsOneElementList ==
    (StagingExists /\ Exists(disk, Staged("manifest.json"))) =>
        /\ disk[Staged("manifest.json")].top = "array"
        /\ Len(disk[Staged("manifest.json")].elements) = 1
        /\ DOMAIN disk[Staged("manifest.json")].elements[1]
              = {"Config", "RepoTags", "Layers"}

-----------------------------------------------------------------------------
(* C7 *)

\* the record {Config, RepoTags, Layers} that manifest.json holds
ManifestRecord ==
    IF disk[Staged("manifest.json")].top = "array"
    THEN disk[Staged("manifest.json")].elements[1]
    ELSE disk[Staged("manifest.json")].members

\* C7: when manifest.json is written, its Layers list has one entry per
\* layer of the manifest, and entry i is "<layerID_i>/layer.tar" for the
\* legacy ID of the i-th layer descriptor, base first.
C7_LayersListMatchesManifest ==
    (StagingExists /\ Exists(disk, Staged("manifest.json"))) =>
        /\ Len(ManifestRecord.Layers) = Len(Layers)
        /\ \A i \in 1..Len(Layers) :
              ManifestRecord.Layers[i] = ChainId(Layers, i) \o "/layer.tar"

\* manifest.json is written for a manifest of two layers
C7_Witness ==
    /\ StagingExists
    /\ Exists(disk, Staged("manifest.json"))
    /\ Len(Layers) = 2
    /\ Len(ManifestRecord.Layers) = 2

-----------------------------------------------------------------------------
(* C8 *)

\* the names of the layer directories in the staging directory
LayerDirs ==
    {p[2] : p \in {q \in DOMAIN disk :
                      Len(q) = 2 /\ q[1] = image_dir /\ disk[q].kind = "dir"}}

\* C8: the legacy IDs form a hash chain over the ordered digests of the
\* manifest and depend on nothing else: the directories the run has made are
\* those of the chain, whatever the image name, the blobs and the answers.
C8_LayerIdsAreHashChain ==
    (StagingExists /\ pc # "fetch_manifest") =>
        /\ parent_id = IF layer_index = 0 THEN "" ELSE ChainId(Layers, layer_index)
        /\ \/ LayerDirs = {ChainId(Layers, i) : i \in 1..layer_index}
           \/ /\ pc = "exit"
              /\ layer_index < Len(Layers)
              /\ LayerDirs = {ChainId(Layers, i) : i \in 1..(layer_index + 1)}

\* two layers have been processed
C8_Witness ==
    /\ StagingExists
    /\ layer_index = 2
    /\ Cardinality(LayerDirs) = 2
    /\ Layers[1].digest # Layers[2].digest

-----------------------------------------------------------------------------
(* C9 *)

\* the selectors of a well-formed reference: none, a tag, a digest
WellFormedSelectors == {<<>>} \cup RefTags \cup RefDigests

\* C9: for host.tld/ns/img:tag, ns/img:tag, img:tag, img@sha256:<hex> and
\* bare img the parse succeeds and yields the documented tuple: registry is
\* the first segment when it holds "." or ":" and the public registry host
\* otherwise; repository is the remaining leading segments, "library" when
\* there are none; image is the last segment up to "@" or ":"; tag is what
\* follows, "latest" when nothing does.
C9_ParseYieldsDocumentedTuple ==
    \A h \in RefHosts \cup {<<>>}, n \in RefNamespaces \cup {<<>>},
       i \in RefImages, s \in WellFormedSelectors :
        (/\ pc \notin {"main", "parse_image_reference"}
         /\ image_reference = Format(h, n, i, s)
         /\ h # <<>> => n # <<>>) =>
            /\ ~(pc = "exit" /\ requests = <<>>)
            /\ registry = IF h # <<>> THEN h ELSE <<"registry-1", ".", "docker", ".", "io">>
            /\ repo = IF n # <<>> THEN n ELSE <<"library">>
            /\ img = i
            /\ tag = IF s = <<>> THEN <<"latest">> ELSE Tail(s)

\* ns/sub/img:v1 has been parsed: no registry, a repository of two segments
C9_Witness ==
    /\ pc = "get_auth_endpoint"
    /\ image_reference = <<"ns", "/", "sub", "/", "img", ":", "v1">>
    /\ repo = <<"ns", "/", "sub">>
    /\ tag = <<"v1">>

-----------------------------------------------------------------------------
(* C10 *)

\* some stage of the run failed
StageFailed ==
    \/ argc # 2
    \/ \E k \in DOMAIN requests :
          \/ requests[k].kind = "probe" /\ requests[k].status_code = 0
          \/ requests[k].kind = "token" /\ requests[k].issued = ""
          \/ requests[k].kind = "manifest" /\ requests[k].status_code # HTTP_OK
          \/ BlobFailure(k)
    \/ DecompressFailure
    \/ ~ArchiveComplete

\* C10: a run ends with status 0 only if every stage of the pull completed
\* and the archive was fully packed; however else it ends (wrong argument
\* count, failed auth discovery, token request, manifest fetch, blob
\* download, decompression, file write or packing), it ends with status 1.
C10_ExitZeroOnlyOnSuccess ==
    pc = "exit" =>
        /\ exit_status \in {"exit0", "exit1"}
        /\ StageFailed => exit_status = "exit1"

-----------------------------------------------------------------------------
(* C11 *)

\* the paths under the staging directory
StagedPaths == {p \in DOMAIN disk : IsPrefix(<<image_dir>>, p)}

\* the run wrote manifest.json and then failed: packing is all that follows
\* create_image_files
PackingFailed ==
    /\ pc = "exit"
    /\ exit_status = "exit1"
    /\ Exists(disk, Staged("manifest.json"))

\* the archive file is not the one the run found
ArchiveWritten == ~ArchiveUntouched

\* C11: a staging directory found at the start is removed before the run
\* writes its first file, so nothing of an earlier run is staged or packed;
\* after a run that archived, the staging directory is gone; after a run
\* whose packing failed, the staging directory still holds every assembled
\* layer directory.
C11_StagingLifecycle ==
    /\ image_dir # "" =>
          \A p \in StagedPaths : Len(p) >= 2 => p[2] # "stale"
    /\ (image_dir # "" /\ ArchiveWritten) =>
          \A p \in DOMAIN disk[TarPath].tree : Len(p) >= 1 => p[1] # "stale"
    /\ exit_status = "exit0" => StagedPaths = {}
    /\ PackingFailed =>
          /\ Exists(disk, <<image_dir>>)
          /\ \A i \in 1..Len(Layers) :
                {Staged(ChainId(Layers, i)), Staged(ChainId(Layers, i)) \o <<"json">>,
                 Staged(ChainId(Layers, i)) \o <<"layer.tar">>,
                 Staged(ChainId(Layers, i)) \o <<"VERSION">>} \subseteq DOMAIN disk

\* a run that found a stale staging directory has packed two layers
C11_Witness ==
    /\ exit_status = "exit0"
    /\ Len(Layers) = 2
    /\ \E p \in DOMAIN pre_disk : Len(p) = 3 /\ p[2] = "stale"
    /\ StagedPaths = {}

\* a run whose packing failed, with its staging directory left behind
C11_WitnessPackingFailed ==
    /\ PackingFailed
    /\ Len(Layers) = 2
    /\ Exists(disk, Staged(ChainId(Layers, 2)) \o <<"layer.tar">>)

-----------------------------------------------------------------------------
(* C12 *)

\* the key the repositories file owes to the parsed reference
C12_RepositoryKey ==
    IF repo = <<"library">> THEN Str(img) ELSE Str(repo) \o "/" \o Str(img)

\* C12: the repositories file holds exactly one repository key,
\* "<repo>/<image>" or "<image>" alone for the default namespace; that key
\* holds exactly one tag key, the parsed tag or digest; and for a manifest
\* with layers the tag maps to the legacy ID of the topmost layer, the ID
\* that names manifest.json's Config entry and the last entry of its Layers.
C12_RepositoriesNamesTopLayer ==
    (StagingExists /\ Exists(disk, Staged("repositories"))) =>
        LET members == disk[Staged("repositories")].members
        IN  /\ disk[Staged("repositories")].top = "object"
            /\ DOMAIN members = {C12_RepositoryKey}
            /\ DOMAIN members[C12_RepositoryKey] = {Str(tag)}
            /\ Len(Layers) >= 1 =>
                  LET top == ChainId(Layers, Len(Layers))
                  IN  /\ members[C12_RepositoryKey][Str(tag)] = top
                      /\ ManifestRecord.Config = top \o ".json"
                      /\ ManifestRecord.Layers[Len(Layers)] = top \o "/layer.tar"

\* repositories is written for busybox (default namespace) with two layers
C12_Witness ==
    /\ StagingExists
    /\ Exists(disk, Staged("repositories"))
    /\ Len(Layers) = 2
    /\ "busybox" \in DOMAIN disk[Staged("repositories")].members
    /\ "latest" \in DOMAIN disk[Staged("repositories")].members["busybox"]

\* repositories is written for a reference with a namespace and a digest
C12_WitnessQualified ==
    /\ StagingExists
    /\ Exists(disk, Staged("repositories"))
    /\ Len(Layers) >= 1
    /\ "ns/sub/img" \in DOMAIN disk[Staged("repositories")].members
    /\ "sha256:abc" \in DOMAIN disk[Staged("repositories")].members["ns/sub/img"]

-----------------------------------------------------------------------------
(* C13 *)

\* the json file of layer i
LayerJsonPath(i) == Staged(ChainId(Layers, i)) \o <<"json">>

\* C13: each layer's json has id equal to the layer's computed ID; each
\* layer but the base has parent equal to the ID of the layer before it; the
\* base layer's json has no parent key, also when the only layer is base and
\* topmost and the downloaded config carries id or parent keys of its own.
C13_IdAndParentInjected ==
    \A i \in 1..Len(Layers) :
        (StagingExists /\ Exists(disk, LayerJsonPath(i))) =>
            LET members == disk[LayerJsonPath(i)].members
            IN  /\ "id" \in DOMAIN members
                /\ members["id"] = ChainId(Layers, i)
                /\ i > 1 => /\ "parent" \in DOMAIN members
                            /\ members["parent"] = ChainId(Layers, i - 1)
                /\ i = 1 => "parent" \notin DOMAIN members

-----------------------------------------------------------------------------
(* C14 *)

\* the directories at the top of a staged tree
C14_Dirs(tree) == {p[1] : p \in {q \in DOMAIN tree : Len(q) = 1 /\ tree[q].kind = "dir"}}

\* the names of what a staged tree holds below the directory id
C14_Below(tree, id) ==
    {SubSeq(p, 2, Len(p)) : p \in {q \in DOMAIN tree : Len(q) >= 2 /\ q[1] = id}}

\* one directory per manifest layer, each with VERSION, json and layer.tar
C14_LayerDirsAssembled(tree) ==
    /\ C14_Dirs(tree) = {ChainId(Layers, i) : i \in 1..Len(Layers)}
    /\ Cardinality(C14_Dirs(tree)) = Len(Layers)
    /\ \A id \in C14_Dirs(tree) :
          /\ C14_Below(tree, id) = {<<"VERSION">>, <<"json">>, <<"layer.tar">>}
          /\ tree[<<id, "VERSION">>] = TextFile("1.0")
          /\ tree[<<id, "json">>].kind = "json"
          /\ tree[<<id, "layer.tar">>].kind = "layer"

\* C14: when the staging directory is packed it holds exactly one directory
\* per manifest layer, each with exactly VERSION, json and layer.tar, and so
\* does the archive that was packed from it; no layer_gzip.tar is left in a
\* layer directory, and a layer's json exists only once the layer's blob has
\* been downloaded and decompressed into layer.tar.
C14_ThreeFilesPerLayer ==
    /\ pc = "create_image_tar" => C14_LayerDirsAssembled(Subtree(disk, <<image_dir>>))
    /\ (ArchiveWritten /\ Exists(disk, TarPath) /\ disk[TarPath].complete)
          => C14_LayerDirsAssembled(disk[TarPath].tree)
    /\ \A i \in 1..Len(Layers) :
          (StagingExists /\ Exists(disk, LayerJsonPath(i))) =>
              /\ Exists(disk, Staged(ChainId(Layers, i)) \o <<"layer.tar">>)
              /\ disk[Staged(ChainId(Layers, i)) \o <<"layer.tar">>].kind = "layer"
              /\ ~Exists(disk, Staged(ChainId(Layers, i)) \o <<"layer_gzip.tar">>)

\* the staging directory of a two-layer image is about to be packed
C14_Witness ==
    /\ pc = "create_image_tar"
    /\ Len(Layers) = MaxLayers
    /\ Cardinality(LayerDirs) = MaxLayers

\* the archive of a two-layer image has been packed
C14_WitnessPacked ==
    /\ exit_status = "exit0"
    /\ ArchiveWritten
    /\ Len(Layers) = MaxLayers

-----------------------------------------------------------------------------
(* C15 *)

\* the requests that fetch content from the registry or a mirror
C15_ContentGets ==
    {k \in 1..Len(requests) : requests[k].kind \in {"manifest", "config", "blob"}}

\* the token requests
C15_TokenGets == {k \in 1..Len(requests) : requests[k].kind = "token"}

\* C15: every manifest, config and blob GET, the manifest-list GET and the
\* fallback GET included, directly follows a token request of its own to the
\* discovered auth endpoint with scope repository:<repo>/<img>:pull and sends
\* the token that request returned, so no token is sent twice; a token
\* answer without a token field is the last request of a run that fails.
C15_FreshTokenPerRequest ==
    /\ \A k \in C15_ContentGets :
          /\ k > 1
          /\ requests[k - 1].kind = "token"
          /\ requests[k - 1].issued # ""
          /\ requests[k].authorization = "Bearer " \o requests[k - 1].issued
    /\ \A j, k \in C15_ContentGets :
          j # k => requests[j].authorization # requests[k].authorization
    /\ \A k \in C15_TokenGets :
          /\ requests[k].url = auth_url \o "?service=" \o reg_service
                                  \o "&scope=repository:" \o Str(repo) \o "/" \o Str(img)
                                  \o ":pull"
          /\ requests[k].issued = "" =>
                /\ k = Len(requests)
                /\ pc = "exit"
                /\ exit_status = "exit1"

\* a run that fetched manifest, config, a blob and, after the blob's failure,
\* the fallback
C15_Witness ==
    /\ \E k \in C15_ContentGets : requests[k].kind = "manifest"
    /\ \E k \in C15_ContentGets : requests[k].kind = "config"
    /\ \E k \in C15_ContentGets : MadeGood(k)

\* a run that asked for the manifest list
C15_WitnessManifestList ==
    \E k \in C15_ContentGets : requests[k].accept = ManifestListV2

\* a run whose token request for a layer blob got no token
C15_WitnessNoToken ==
    /\ Len(requests) > 1
    /\ requests[Len(requests)].kind = "token"
    /\ requests[Len(requests)].issued = ""
    /\ pc = "exit"

-----------------------------------------------------------------------------
(* C16 *)

\* the realm and the service each challenge announces, "" for no service
C16_Announced == {<<c[3], IF Len(c) >= 7 THEN c[7] ELSE "">> : c \in Challenges}

\* the probes of the registry's /v2/ endpoint
C16_Probes == {k \in 1..Len(requests) : requests[k].kind = "probe"}

\* the probe is the first request and the only one of its kind; until it is
\* answered the two fields hold the public registry's defaults
C16_ProbedOnce ==
    /\ C16_Probes \subseteq {1}
    /\ requests # <<>> => C16_Probes = {1}
    /\ requests = <<>> => auth_url = DefaultAuthUrl /\ reg_service = DefaultRegService
    /\ pc \in {"create_image_directory", "fetch_manifest", "download_config",
               "process_layers", "for_layer_in_layers", "create_image_files",
               "create_image_tar"} => C16_Probes = {1}

\* what one step does to the two fields
C16_Step ==
    IF pc = "get_auth_endpoint"
    THEN /\ Len(requests') = Len(requests) + 1
         /\ requests'[Len(requests')].kind = "probe"
         /\ requests'[Len(requests')].url = "https://" \o Str(registry) \o "/v2/"
         /\ IF requests'[Len(requests')].status_code = HTTP_UNAUTHORIZED
            THEN <<auth_url', reg_service'>> \in C16_Announced
            ELSE /\ auth_url' = DefaultAuthUrl
                 /\ reg_service' = DefaultRegService
    ELSE /\ auth_url' = auth_url
         /\ reg_service' = reg_service
         /\ \A k \in (Len(requests) + 1)..Len(requests') : requests'[k].kind # "probe"

\* C16: the registry is probed exactly once per run, before any token
\* request; an answer other than 401 leaves auth_url and reg_service at
\* their defaults, a 401 sets auth_url to the challenge's realm and
\* reg_service to the challenge's service, or to "" when the challenge names
\* no service; no other step changes either field.
C16_DiscoveredOnce == []C16_ProbedOnce /\ [][C16_Step]_vars

\* a 401 whose challenge names no service was answered
C16_Witness ==
    /\ pc = "create_image_directory"
    /\ requests[1].status_code = HTTP_UNAUTHORIZED
    /\ reg_service = ""
    /\ auth_url # DefaultAuthUrl

\* a 401 whose challenge names realm and service was answered
C16_WitnessService ==
    /\ pc = "create_image_directory"
    /\ requests[1].status_code = HTTP_UNAUTHORIZED
    /\ reg_service \notin {"", DefaultRegService}

\* the probe was answered 200 and tokens were requested afterwards
C16_WitnessNoChallenge ==
    /\ Len(requests) > 1
    /\ requests[1].status_code = HTTP_OK
    /\ auth_url = DefaultAuthUrl

-----------------------------------------------------------------------------
(* C17 *)

\* the files of the staging directory by the path an archive member has
C17_StagedFiles ==
    {IF Len(p) = 2 THEN p[2] ELSE p[2] \o "/" \o p[3] :
        p \in {q \in StagedPaths : Len(q) \in {2, 3} /\ disk[q].kind # "dir"}}

\* the layer.tar files manifest.json names
C17_NamedLayers == {ManifestRecord.Layers[i] : i \in 1..Len(ManifestRecord.Layers)}

\* C17: when the archive is packed, every path manifest.json names is a
\* file of the staging directory: the Config entry and every Layers entry.
C17_ManifestNamesStagedFiles ==
    pc = "create_image_tar" =>
        /\ ManifestRecord.Config \in C17_StagedFiles
        /\ C17_NamedLayers \subseteq C17_StagedFiles

\* the Layers entries alone are staged files
C17_NamedLayersAreStaged ==
    pc = "create_image_tar" => C17_NamedLayers \subseteq C17_StagedFiles

-----------------------------------------------------------------------------
(* C18 *)

\* the URLs of the registry the image is pulled from: https://<registry>/v2/...
C18_RegistryUrls ==
    {RegistryUrl("manifests", Str(tag))}
        \cup {RegistryUrl("blobs", DigestStr(Digest(ConfigHex)))}
        \cup {RegistryUrl("blobs", DigestStr(l.digest)) : l \in LayerDescriptors}

\* the requests that carry a bearer token
C18_Authorized == {k \in 1..Len(requests) : requests[k].authorization # ""}

\* C18: a bearer token issued for the registry is sent only in requests to
\* the registry the image is pulled from; no request to another host, the
\* one to a layer's fallback URL included, carries an Authorization header.
C18_TokenOnlyToRegistry ==
    \A k \in C18_Authorized : requests[k].url \in C18_RegistryUrls

\* apart from the GET that follows a failed blob GET, every request with a
\* token goes to the registry
C18_TokenToRegistryButFallback ==
    \A k \in C18_Authorized :
        \/ requests[k].url \in C18_RegistryUrls
        \/ k > 2 /\ requests[k].kind = "blob" /\ requests[k - 2].kind = "blob"
                 /\ requests[k - 2].status_code >= HTTP_ERROR_FROM

-----------------------------------------------------------------------------
(* C19 *)

\* parse_image_reference returned
C19_Parsed == pc = "get_auth_endpoint"

\* C19: after parse_image_reference the repository path is non-empty for
\* every reference, one with a registry host and no namespace included, so
\* no URL or token scope built from it has an empty repository segment.
C19_RepoNeverEmpty == C19_Parsed => repo # <<>>

\* the repository path is empty only for a reference whose first of exactly
\* two slash-separated parts is a registry host
C19_EmptyOnlyForHostAndImage ==
    (C19_Parsed /\ repo = <<>>) =>
        /\ Len(Split(image_reference, "/")) = 2
        /\ HasRegistry(Split(image_reference, "/"))

====
